---- MODULE Spec2Model ----
(***************************************************************************)
(* A model of the configuration helpers of                                 *)
(* src/pytorch/libs/support/utils.py: assign_params_dict, split_params,    *)
(* write_nnet_config / read_nnet_config, create_model_dir and              *)
(* create_model_from_py.  Each helper has its own specification            *)
(* (SpecMerge, SpecSplit, SpecRecord, SpecDir, SpecLoad) over the          *)
(* variables it touches; the variables of the other helpers stay idle.     *)
(***************************************************************************)
EXTENDS Integers, Sequences, FiniteSets, TLC

VARIABLES
    \* assign_params_dict
    default_params,   \* the dict passed as default_params (mutated in place)
    params,           \* the dict passed as params
    force_check,      \* argument force_check
    support_unknow,   \* argument support_unknow
    mpc,              \* "ready", "returned" or "raised"
    merr,             \* what was raised: [kind, key]
    default_before,   \* history: default_params as it was passed in
    \* split_params
    flat,             \* the dict passed as params
    params_split,     \* the dict returned
    spc,              \* "ready", "returned" or "raised"
    serr,             \* what was raised: [kind, key]
    \* write_nnet_config / read_nnet_config
    model_blueprint,  \* argument model_blueprint of write_nnet_config
    model_creation,   \* argument model_creation of write_nnet_config
    nnet_config,      \* the characters of the file nnet_config
    rpc,              \* "ready", "written" or "read"
    read_result,      \* the pair returned by read_nnet_config
    \* create_model_dir
    fs_files,         \* the file system: path -> content, 0 when there is no file
    fs_dirs,          \* the directories that exist
    staged,           \* history: the (model_dir, model_blueprint, stage) of earlier calls
    last_call,        \* history: the last create_model_dir call and what it did
    \* create_model_from_py
    disk,             \* the definition files that exist
    sys_path,         \* sys.path
    sys_modules,      \* sys.modules: the <<name, file it was loaded from>> pairs
    loads,            \* the number of create_model_from_py calls so far
    last_load         \* history: the last create_model_from_py call and its outcome

mergeVars == <<default_params, params, force_check, support_unknow, mpc, merr,
               default_before>>

splitVars == <<flat, params_split, spc, serr>>

recordVars == <<model_blueprint, model_creation, nnet_config, rpc, read_result>>

dirVars == <<fs_files, fs_dirs, staged, last_call>>

loadVars == <<disk, sys_path, sys_modules, loads, last_load>>

(***************************************************************************)
(* Python values and dicts.  A value is a record [tag, val]; a dict is the *)
(* sequence of its <<key, value>> items in insertion order.                *)
(***************************************************************************)
PyBool(b)  == [tag |-> "bool",  val |-> b]
PyInt(n)   == [tag |-> "int",   val |-> n]
PyFloat(n) == [tag |-> "float", val |-> n]
PyStr(s)   == [tag |-> "str",   val |-> s]
PyNone     == [tag |-> "null",  val |-> 0]
PyDict(m)  == [tag |-> "map",   val |-> m]

DictKeys(d) == {d[i][1] : i \in 1..Len(d)}

DictGet(d, k) == LET i == CHOOSE j \in 1..Len(d) : d[j][1] = k IN d[i][2]

\* d[k] = v : an existing key keeps its position, a new key goes last
DictSet(d, k, v) ==
    IF k \in DictKeys(d)
    THEN [i \in 1..Len(d) |-> IF d[i][1] = k THEN <<k, v>> ELSE d[i]]
    ELSE Append(d, <<k, v>>)

\* the dicts with at most n items over keys K and values V
RECURSIVE DictsUpTo(_, _, _)
DictsUpTo(K, V, n) ==
    IF n = 0 THEN {<<>>}
    ELSE LET shorter == DictsUpTo(K, V, n - 1) IN
         shorter \cup
         UNION {{Append(d, <<k, v>>) : k \in K \ DictKeys(d), v \in V} :
                d \in {e \in shorter : Len(e) = n - 1}}

(***************************************************************************)
(* assign_params_dict                                                      *)
(***************************************************************************)
MaxDefault == 2
MaxParams == 2

ParamKeys == {"a", "b", "c"}

ParamValues == {PyBool(1), PyInt(1), PyInt(2), PyFloat(1), PyStr("s"), PyNone,
                PyDict("m")}

\* isinstance(v, type(p)): bool is a subclass of int
IsInstanceOfTypeOf(v, p) ==
    \/ v.tag = p.tag
    \/ v.tag = "bool" /\ p.tag = "int"

\* isinstance(v, float)
IsFloat(v) == v.tag = "float"

\* isinstance(p, int): True for a bool as well
IsInt(p) == p.tag \in {"int", "bool"}

\* p * 1.0
TimesOneFloat(p) == PyFloat(p.val)

\* the if / elif chain of the merge loop for one shared key: the value stored,
\* or "raise"
MergeValue(v, p) ==
    IF IsInstanceOfTypeOf(v, p) THEN [ok |-> TRUE, value |-> p]
    ELSE IF IsFloat(v) /\ IsInt(p) THEN [ok |-> TRUE, value |-> TimesOneFloat(p)]
    ELSE IF v = PyNone \/ p = PyNone THEN [ok |-> TRUE, value |-> p]
    ELSE [ok |-> FALSE, value |-> p]

NoError == [kind |-> "none", key |-> ""]

\* for k, v in default_params.items(): from item i on, assigning in place
RECURSIVE MergeLoop(_, _, _)
MergeLoop(d, p, i) ==
    IF i > Len(d) THEN [d |-> d, err |-> NoError]
    ELSE LET k == d[i][1]
             v == d[i][2]
         IN IF k \in DictKeys(p)
            THEN LET m == MergeValue(v, DictGet(p, k)) IN
                 IF m.ok THEN MergeLoop(DictSet(d, k, m.value), p, i + 1)
                 ELSE [d |-> d, err |-> [kind |-> "TypeMismatch", key |-> k]]
            ELSE MergeLoop(d, p, i + 1)

\* for key in params.keys(): if key not in default_keys: default_params[key] = ...
RECURSIVE AddUnknown(_, _, _, _)
AddUnknown(d, p, default_keys, i) ==
    IF i > Len(p) THEN d
    ELSE IF p[i][1] \notin default_keys
         THEN AddUnknown(DictSet(d, p[i][1], p[i][2]), p, default_keys, i + 1)
         ELSE AddUnknown(d, p, default_keys, i + 1)

\* The force_check block iterates over `param`, a name that is bound nowhere
\* in the module: evaluating it raises NameError before any key is looked at.
ForceCheckBlock(d, p) == [kind |-> "NameError", key |-> ""]

\* the whole call: the mapping left in default_params and what was raised
AssignParamsDictResult(d, p, fc, su) ==
    IF fc THEN [d |-> d, err |-> ForceCheckBlock(d, p)]
    ELSE LET merged == MergeLoop(d, p, 1) IN
         IF merged.err # NoError THEN merged
         ELSE IF ~fc /\ su
              THEN [d |-> AddUnknown(merged.d, p, DictKeys(d), 1), err |-> NoError]
              ELSE merged

MergeInit ==
    /\ default_params \in DictsUpTo(ParamKeys, ParamValues, MaxDefault)
    /\ params \in DictsUpTo(ParamKeys, ParamValues, MaxParams)
    /\ force_check \in BOOLEAN
    /\ support_unknow \in BOOLEAN
    /\ mpc = "ready"
    /\ merr = NoError
    /\ default_before = default_params

MergeIdle ==
    /\ default_params = <<>>
    /\ params = <<>>
    /\ force_check = FALSE
    /\ support_unknow = FALSE
    /\ mpc = "idle"
    /\ merr = NoError
    /\ default_before = <<>>

AssignParamsDict ==
    /\ mpc = "ready"
    /\ LET r == AssignParamsDictResult(default_params, params, force_check,
                                       support_unknow)
       IN /\ default_params' = r.d
          /\ merr' = r.err
          /\ mpc' = IF r.err = NoError THEN "returned" ELSE "raised"
    /\ UNCHANGED <<params, force_check, support_unknow, default_before>>

(***************************************************************************)
(* Claims about assign_params_dict                                         *)
(***************************************************************************)
MergeDone == mpc \in {"returned", "raised"}

SharedKeys == DictKeys(default_before) \cap DictKeys(params)

UnknownKeys == DictKeys(params) \ DictKeys(default_before)

\* the first key of p, in p's order, that is not in default_keys
FirstUnknown(p, default_keys) ==
    LET i == CHOOSE j \in 1..Len(p) :
                 /\ p[j][1] \notin default_keys
                 /\ \A h \in 1..(j - 1) : p[h][1] \in default_keys
    IN p[i][1]

\* C1: a call that reaches the type check (force_check = FALSE) fails with
\* TypeMismatch whenever some shared key has values of different tags,
\* neither value null and the pair not (default floating-point, override
\* integer); boolean against integer and boolean against floating-point
\* included, in either direction.
C1_TypeMismatchOnDifferentTags ==
    (MergeDone /\ ~force_check) =>
        \A k \in SharedKeys :
            LET v == DictGet(default_before, k)
                p == DictGet(params, k)
            IN (/\ v.tag # p.tag
                /\ v # PyNone
                /\ p # PyNone
                /\ ~(v.tag = "float" /\ p.tag = "int"))
               => (mpc = "raised" /\ merr.kind = "TypeMismatch")

\* C2: for an override key absent from the default the outcome follows the
\* truth table of (force_check, support_unknow): force_check fails with
\* UnknownKey naming the first offending key before any key is merged;
\* support_unknow alone adds the key verbatim; neither leaves the key out
\* and raises no error on its account.
C2_UnknownKeyPolicy ==
    MergeDone =>
        \A k \in UnknownKeys :
            IF force_check
            THEN /\ mpc = "raised"
                 /\ merr = [kind |-> "UnknownKey",
                            key |-> FirstUnknown(params, DictKeys(default_before))]
                 /\ default_params = default_before
            ELSE /\ merr.kind \notin {"UnknownKey", "NameError"}
                 /\ IF support_unknow
                    THEN mpc = "returned" =>
                            /\ k \in DictKeys(default_params)
                            /\ DictGet(default_params, k) = DictGet(params, k)
                    ELSE k \notin DictKeys(default_params)

\* C3: in a call that reaches the merge loop, a floating-point default
\* overridden by an integer gives the floating-point value of the same
\* number; a merged value is a widened one only when the override is an
\* integer; an integer default is never overridden by a floating-point value.
C3_NumericWidening ==
    (MergeDone /\ ~force_check) =>
        \A k \in SharedKeys :
            LET v == DictGet(default_before, k)
                p == DictGet(params, k)
                r == DictGet(default_params, k)
            IN /\ (mpc = "returned" /\ v.tag = "float" /\ p.tag = "int")
                      => r = PyFloat(p.val)
               /\ (mpc = "returned" /\ r.tag = "float" /\ p.tag # "float")
                      => p.tag = "int"
               /\ (v.tag = "int" /\ p.tag = "float")
                      => (mpc = "raised" /\ merr.kind = "TypeMismatch")

\* C4: after a successful merge every default key is still present, a key
\* only in the default keeps its value, a shared key holds the override
\* value or its widened form with the default's tag unless one of the two is
\* null, and a key outside the default is present only under
\* force_check = FALSE and support_unknow = TRUE.
C4_MergedConfigInvariant ==
    mpc = "returned" =>
        /\ \A k \in DictKeys(default_before) :
              /\ k \in DictKeys(default_params)
              /\ k \notin DictKeys(params)
                    => DictGet(default_params, k) = DictGet(default_before, k)
              /\ k \in DictKeys(params) =>
                    LET v == DictGet(default_before, k)
                        p == DictGet(params, k)
                        r == DictGet(default_params, k)
                    IN /\ r = p \/ r = PyFloat(p.val)
                       /\ v = PyNone \/ p = PyNone \/ r.tag = v.tag
        /\ \A k \in DictKeys(default_params) \ DictKeys(default_before) :
              ~force_check /\ support_unknow

\* C9: when the call raises TypeMismatch, the mapping passed as default holds
\* exactly the values it held before the call.
C9_FailedMergeLeavesDefaultUntouched ==
    (mpc = "raised" /\ merr.kind = "TypeMismatch")
        => default_params = default_before

\* C10: when every override key is in the default, force_check = TRUE raises
\* nothing from the unknown-key check and leaves the same mapping and outcome
\* as the same call with force_check = FALSE.
C10_ForceCheckWithKnownKeys ==
    (MergeDone /\ force_check /\ UnknownKeys = {}) =>
        /\ merr.kind \notin {"UnknownKey", "NameError"}
        /\ [d |-> default_params, err |-> merr]
              = AssignParamsDictResult(default_before, params, FALSE,
                                       support_unknow)

(***************************************************************************)
(* split_params.  A string is the sequence of its pieces; "." is the dot   *)
(* and every other piece is a run of characters without a dot.             *)
(***************************************************************************)
MaxKeyLen == 3
MaxFlat == 2

KeyPieces == {"public", "a", "."}

Strings(pieces, n) == UNION {[1..m -> pieces] : m \in 0..n}

\* the keys of at most n pieces: names separated by dots, a name being one
\* piece or empty
Keys(n) ==
    {s \in Strings(KeyPieces, n) :
        \A i \in 1..(Len(s) - 1) : s[i] = "." \/ s[i + 1] = "."}

\* s.split("."), from position i on: cur is the segment being read
RECURSIVE SplitDotFrom(_, _, _, _)
SplitDotFrom(s, i, cur, acc) ==
    IF i > Len(s) THEN Append(acc, cur)
    ELSE IF s[i] = "." THEN SplitDotFrom(s, i + 1, <<>>, Append(acc, cur))
    ELSE SplitDotFrom(s, i + 1, Append(cur, s[i]), acc)

SplitDot(s) == SplitDotFrom(s, 1, <<>>, <<>>)

Public == <<"public">>

\* a mutation of PutInBucket: the bucket is always created anew
PutInFreshBucket(split, name, param, v) == DictSet(split, name, <<<<param, v>>>>)

\* if name in params_split_keys: params_split[name][param] = v
\* else: params_split[name] = {param: v}
PutInBucket(split, name, param, v) ==
    IF name \in DictKeys(split)
    THEN DictSet(split, name, DictSet(DictGet(split, name), param, v))
    ELSE DictSet(split, name, <<<<param, v>>>>)

\* for k, v in params.items(): from item i on
RECURSIVE SplitLoop(_, _, _)
SplitLoop(p, i, split) ==
    IF i > Len(p) THEN [split |-> split, err |-> NoError]
    ELSE LET k == p[i][1]
             v == p[i][2]
             parts == SplitDot(k)
         IN IF Len(parts) = 2
            THEN SplitLoop(p, i + 1, PutInBucket(split, parts[1], parts[2], v))
            ELSE IF Len(parts) = 1
                 THEN SplitLoop(p, i + 1,
                                DictSet(split, Public,
                                        DictSet(DictGet(split, Public), k, v)))
                 ELSE [split |-> <<>>, err |-> [kind |-> "MalformedKey", key |-> k]]

SplitParamsResult(p) == SplitLoop(p, 1, <<<<Public, <<>>>>>>)

\* the flat dicts of at most n items: the i-th item inserted holds the value i
RECURSIVE FlatDicts(_, _)
FlatDicts(K, n) ==
    IF n = 0 THEN {<<>>}
    ELSE LET shorter == FlatDicts(K, n - 1) IN
         shorter \cup
         UNION {{Append(d, <<k, n>>) : k \in K \ DictKeys(d)} :
                d \in {e \in shorter : Len(e) = n - 1}}

SplitInit ==
    /\ flat \in FlatDicts(Keys(MaxKeyLen), MaxFlat)
    /\ params_split = <<>>
    /\ spc = "ready"
    /\ serr = NoError

SplitIdle ==
    /\ flat = <<>>
    /\ params_split = <<>>
    /\ spc = "idle"
    /\ serr = NoError

SplitParams ==
    /\ spc = "ready"
    /\ LET r == SplitParamsResult(flat) IN
          /\ params_split' = r.split
          /\ serr' = r.err
          /\ spc' = IF r.err = NoError THEN "returned" ELSE "raised"
    /\ UNCHANGED flat

(***************************************************************************)
(* Claims about split_params                                               *)
(***************************************************************************)
\* the (key, value) pairs of a dict
Pairs(d) == {<<d[i][1], d[i][2]>> : i \in 1..Len(d)}

\* flattening: entry k of the public bucket back to key k, entry p of any
\* other bucket c back to key "c.p"
Flatten(split) ==
    UNION {{<<IF split[i][1] = Public THEN split[i][2][j][1]
              ELSE split[i][1] \o <<".">> \o split[i][2][j][1],
              split[i][2][j][2]>> : j \in 1..Len(split[i][2])} :
           i \in 1..Len(split)}

\* the (component, local-key) pair of a key with zero or one dot
PairOf(k) ==
    LET parts == SplitDot(k) IN
    IF Len(parts) = 1 THEN <<Public, k>> ELSE <<parts[1], parts[2]>>

\* the key's pair is in split(m) and holds the key's value
InSplit(split, k, v) ==
    LET pr == PairOf(k) IN
    /\ pr[1] \in DictKeys(split)
    /\ <<pr[2], v>> \in Pairs(DictGet(split, pr[1]))

AtMostOneDot(d) == \A k \in DictKeys(d) : Len(SplitDot(k)) <= 2

NoPublicComponent(d) ==
    \A k \in DictKeys(d) : Len(SplitDot(k)) = 2 => SplitDot(k)[1] # Public

RoundTrip ==
    /\ spc = "returned"
    /\ \A pr \in Pairs(flat) : InSplit(params_split, pr[1], pr[2])
    /\ \A k1, k2 \in DictKeys(flat) : PairOf(k1) = PairOf(k2) => k1 = k2
    /\ Flatten(params_split) = Pairs(flat)

\* C5 as stated: every flat mapping whose keys have zero or one dot is split
\* without loss, a one-dot key with component "public" included.
C5_RoundTripWithReservedName ==
    (spc # "ready" /\ AtMostOneDot(flat)) => RoundTrip

\* C5 as amended: every flat mapping whose keys have zero or one dot, and in
\* which no one-dot key has the component part "public", is split without
\* loss: each key maps to one (component, local-key) pair of split(m), no two
\* keys share a pair, and flattening gives back exactly the pairs of m.
C5_RoundTrip ==
    (spc # "ready" /\ AtMostOneDot(flat) /\ NoPublicComponent(flat)) => RoundTrip

\* a mapping with a public key and two keys of one component has been split
C5_Witness ==
    /\ spc = "returned"
    /\ AtMostOneDot(flat) /\ NoPublicComponent(flat)
    /\ \E k1, k2 \in DictKeys(flat) :
          /\ k1 # k2
          /\ Len(SplitDot(k1)) = 2 /\ Len(SplitDot(k2)) = 2
          /\ SplitDot(k1)[1] = SplitDot(k2)[1]

(***************************************************************************)
(* write_nnet_config / read_nnet_config.  The record is written by         *)
(* DataFrame.to_csv(header=None, sep=";") and read by                      *)
(* read_csv(header=None, index_col=0, sep=";"): the file is a sequence of  *)
(* characters, the two index labels being one character each.              *)
(***************************************************************************)
MaxStr == 2

RecChars == {"a", ",", ";", "\"", "1"}

Sep == ";"
Quote == "\""
Newline == "\n"

\* every quote character doubled
RECURSIVE DoubleQuotes(_)
DoubleQuotes(s) ==
    IF s = <<>> THEN <<>>
    ELSE (IF Head(s) = Quote THEN <<Quote, Quote>> ELSE <<Head(s)>>)
         \o DoubleQuotes(Tail(s))

\* a mutation of CsvField: the field is written as it is
CsvFieldUnquoted(s) == s

\* to_csv quotes a field that holds the separator, the quote character or a
\* line terminator (QUOTE_MINIMAL) and doubles the quotes inside it
CsvField(s) ==
    IF \E i \in 1..Len(s) : s[i] \in {Sep, Quote, Newline}
    THEN <<Quote>> \o DoubleQuotes(s) \o <<Quote>>
    ELSE s

\* dataframe.to_csv(nnet_config, header=None, sep=";"): a row per index label
WriteNnetConfigFile(bp, creation) ==
    <<"model_blueprint", Sep>> \o CsvField(bp) \o <<Newline>> \o
    <<"model_creation", Sep>> \o CsvField(creation) \o <<Newline>>

\* read_csv's tokenizer: the rows of fields of the file.  st is "record" at
\* the start of a line, "field" at the start of a field, "in" inside an
\* unquoted field, "quoted" inside a quoted one and "quote" after a quote
\* met inside a quoted field.
RECURSIVE Tokenize(_, _, _, _, _, _)
Tokenize(s, i, st, cur, row, rows) ==
    IF i > Len(s)
    THEN IF st = "record" THEN rows ELSE Append(rows, Append(row, cur))
    ELSE LET c == s[i]
             endField == Tokenize(s, i + 1, "field", <<>>, Append(row, cur), rows)
             endRow == Tokenize(s, i + 1, "record", <<>>, <<>>,
                                Append(rows, Append(row, cur)))
             push(next) == Tokenize(s, i + 1, next, Append(cur, c), row, rows)
         IN CASE st = "record" ->
                    IF c = Newline THEN Tokenize(s, i + 1, "record", <<>>, <<>>, rows)
                    ELSE IF c = Sep THEN endField
                    ELSE IF c = Quote THEN Tokenize(s, i + 1, "quoted", cur, row, rows)
                    ELSE push("in")
              [] st = "field" ->
                    IF c = Newline THEN endRow
                    ELSE IF c = Sep THEN endField
                    ELSE IF c = Quote THEN Tokenize(s, i + 1, "quoted", cur, row, rows)
                    ELSE push("in")
              [] st = "in" ->
                    IF c = Newline THEN endRow
                    ELSE IF c = Sep THEN endField
                    ELSE push("in")
              [] st = "quoted" ->
                    IF c = Quote THEN Tokenize(s, i + 1, "quote", cur, row, rows)
                    ELSE push("quoted")
              [] st = "quote" ->
                    IF c = Quote THEN push("quoted")
                    ELSE IF c = Newline THEN endRow
                    ELSE IF c = Sep THEN endField
                    ELSE push("in")

PyNaN == [tag |-> "float", val |-> "nan"]

\* read_csv takes an empty field for a missing value
IsNA(field) == field = <<>>

IsDigits(field) == field # <<>> /\ \A i \in 1..Len(field) : field[i] = "1"

RECURSIVE IntOf(_)
IntOf(field) ==
    IF field = <<>> THEN 0 ELSE 10 * IntOf(SubSeq(field, 1, Len(field) - 1)) + 1

\* read_csv infers one type for the column: integers when every field is a
\* number, floating-point when the others are missing, strings otherwise
ColumnValue(field, column) ==
    IF \A j \in 1..Len(column) : IsDigits(column[j])
    THEN PyInt(IntOf(field))
    ELSE IF \A j \in 1..Len(column) : IsDigits(column[j]) \/ IsNA(column[j])
         THEN IF IsNA(field) THEN PyNaN ELSE PyFloat(IntOf(field))
         ELSE IF IsNA(field) THEN PyNaN ELSE PyStr(field)

\* dataframe.loc[label, 1] of the file read with index_col=0
ReadNnetConfigFile(file) ==
    LET rows == Tokenize(file, 1, "record", <<>>, <<>>, <<>>)
        column == [j \in 1..Len(rows) |->
                      IF Len(rows[j]) >= 2 THEN rows[j][2] ELSE <<>>]
        at(label) == LET j == CHOOSE h \in 1..Len(rows) : rows[h][1] = <<label>>
                     IN ColumnValue(column[j], column)
    IN <<at("model_blueprint"), at("model_creation")>>

RecordInit ==
    /\ model_blueprint \in Strings(RecChars, MaxStr) \ {<<>>}
    /\ model_creation \in Strings(RecChars, MaxStr)
    /\ nnet_config = <<>>
    /\ rpc = "ready"
    /\ read_result = <<>>

RecordIdle ==
    /\ model_blueprint = <<>>
    /\ model_creation = <<>>
    /\ nnet_config = <<>>
    /\ rpc = "idle"
    /\ read_result = <<>>

WriteNnetConfig ==
    /\ rpc = "ready"
    /\ nnet_config' = WriteNnetConfigFile(model_blueprint, model_creation)
    /\ rpc' = "written"
    /\ UNCHANGED <<model_blueprint, model_creation, read_result>>

ReadNnetConfig ==
    /\ rpc = "written"
    /\ read_result' = ReadNnetConfigFile(nnet_config)
    /\ rpc' = "read"
    /\ UNCHANGED <<model_blueprint, model_creation, nnet_config>>

(***************************************************************************)
(* Claims about write_nnet_config / read_nnet_config                       *)
(***************************************************************************)
IsTheString(value, s) == value.tag = "str" /\ value.val = s

\* C6: read_nnet_config of the record written by write_nnet_config returns
\* the pair (model_blueprint, model_creation) as the same strings, for every
\* pair: a creation with commas and the empty creation included.
C6_RecordRoundTrip ==
    rpc = "read" =>
        /\ IsTheString(read_result[1], model_blueprint)
        /\ IsTheString(read_result[2], model_creation)

(***************************************************************************)
(* Paths.  A path is the sequence of its pieces, "/" being the separator.  *)
(***************************************************************************)
LastSlash(path) ==
    LET at == {i \in 1..Len(path) : path[i] = "/"} IN
    IF at = {} THEN 0 ELSE CHOOSE i \in at : \A j \in at : j <= i

\* os.path.basename
Basename(path) == SubSeq(path, LastSlash(path) + 1, Len(path))

\* os.path.dirname
Dirname(path) == SubSeq(path, 1, LastSlash(path) - 1)

(***************************************************************************)
(* create_model_dir                                                        *)
(***************************************************************************)
MaxVersion == 2

ModelDirs == {<<"exp">>}

\* "{0}/config/{1}".format(model_dir, os.path.basename(model_blueprint))
ConfigModelBlueprint(model_dir, blueprint) ==
    model_dir \o <<"/", "config", "/">> \o Basename(blueprint)

Originals == {<<"src", "/", "x.py">>, <<"lib", "/", "x.py">>}

Blueprints == Originals \cup {ConfigModelBlueprint(m, b) : m \in ModelDirs, b \in Originals}

Stages == {-1, 0}

NoCall == [model_dir |-> <<>>, model_blueprint |-> <<>>, stage |-> 0,
           copied |-> FALSE, repeated |-> FALSE, err |-> "idle",
           src_before |-> 0, dst_before |-> 0, dst_after |-> 0, ret |-> <<>>]

\* a mutation of CopyNeeded: the copy is made whenever the run is not started
CopyNeededAnyLocation(stage, blueprint, config_model_blueprint) == stage < 0

\* if stage < 0 and model_blueprint != config_model_blueprint
CopyNeeded(stage, blueprint, config_model_blueprint) ==
    stage < 0 /\ blueprint # config_model_blueprint

DirInit ==
    /\ fs_files = [f \in Blueprints |-> IF f \in Originals THEN 1 ELSE 0]
    /\ fs_dirs = {}
    /\ staged = {}
    /\ last_call = NoCall

DirIdle ==
    /\ fs_files = <<>>
    /\ fs_dirs = {}
    /\ staged = {}
    /\ last_call = NoCall

\* the original blueprint is changed by its author between two calls
EditBlueprint(f) ==
    /\ f \in Originals
    /\ fs_files[f] > 0
    /\ fs_files[f] < MaxVersion
    /\ fs_files' = [fs_files EXCEPT ![f] = @ + 1]
    /\ UNCHANGED <<fs_dirs, staged, last_call>>

CreateModelDir(model_dir, blueprint, stage) ==
    LET cfg == ConfigModelBlueprint(model_dir, blueprint)
        copy == CopyNeeded(stage, blueprint, cfg)
        \* shutil.copy raises FileNotFoundError when the source is missing
        missing == copy /\ fs_files[blueprint] = 0
        after == IF copy /\ ~missing
                 THEN [fs_files EXCEPT ![cfg] = fs_files[blueprint]]
                 ELSE fs_files
    IN /\ fs_dirs' = fs_dirs \cup {model_dir \o <<"/", "log">>,
                                   model_dir \o <<"/", "config">>}
       /\ fs_files' = after
       /\ staged' = IF missing THEN staged
                    ELSE staged \cup {<<model_dir, blueprint, stage>>}
       /\ last_call' = [model_dir |-> model_dir, model_blueprint |-> blueprint,
                        stage |-> stage,
                        copied |-> copy /\ ~missing,
                        repeated |-> <<model_dir, blueprint, stage>> \in staged,
                        err |-> IF missing THEN "FileNotFoundError" ELSE "none",
                        src_before |-> fs_files[blueprint],
                        dst_before |-> fs_files[cfg],
                        dst_after |-> after[cfg],
                        ret |-> IF missing THEN <<>> ELSE cfg]

(***************************************************************************)
(* Claims about create_model_dir                                           *)
(***************************************************************************)
\* C7 as stated: a call with stage = -1 whose (model_dir, model_blueprint)
\* were already passed to an earlier call with stage = -1 performs no copy
\* and leaves the snapshot of the first staging as it was.
C7_SecondCallSameInputsNoCopy ==
    (last_call.err = "none" /\ last_call.stage < 0 /\ last_call.repeated)
        => (~last_call.copied /\ last_call.dst_after = last_call.dst_before)

\* C7 as amended: a call with stage = -1 performs no copy, and leaves the
\* snapshot as it was, when the definition location it is given is already
\* <model_dir>/config/<base name> (the path the first call returned); given
\* any other location, the location of the first call included, it copies the
\* source as it is now over the snapshot.
C7_NoCopyOnlyFromConfigLocation ==
    (last_call.err = "none" /\ last_call.stage < 0) =>
        IF last_call.model_blueprint = last_call.ret
        THEN ~last_call.copied /\ last_call.dst_after = last_call.dst_before
        ELSE last_call.copied /\ last_call.dst_after = last_call.src_before

\* the second call was given the path the first call returned, after the
\* original had changed: the snapshot still holds the first staging
C7_Witness ==
    /\ last_call.err = "none" /\ last_call.stage < 0
    /\ last_call.model_blueprint = last_call.ret
    /\ ~last_call.copied
    /\ \E b \in Originals :
          /\ <<last_call.model_dir, b, -1>> \in staged
          /\ ConfigModelBlueprint(last_call.model_dir, b) = last_call.ret
          /\ fs_files[b] # last_call.dst_after
    /\ last_call.dst_after > 0

(***************************************************************************)
(* create_model_from_py                                                    *)
(***************************************************************************)
MaxLoads == 2

Locations == {<<d, "/", n, ".", "py">> : d \in {"A", "B"}, n \in {"x", "y"}}

NoLoad == [blueprint |-> <<>>, ok |-> FALSE, module |-> <<>>, existed |-> FALSE]

\* os.path.basename(model_blueprint).split('.')[0]
ModelModuleName(blueprint) == SplitDot(Basename(blueprint))[1]

\* the file the path finder gives for a module name: name.py in the first
\* directory of sys.path that holds one, <<>> when there is none
RECURSIVE FindModule(_, _, _)
FindModule(name, path, files) ==
    IF path = <<>> THEN <<>>
    ELSE LET candidate == Head(path) \o <<"/">> \o name \o <<".", "py">> IN
         IF candidate \in files THEN candidate
         ELSE FindModule(name, Tail(path), files)

\* __import__(name): the module registered in sys.modules under the name when
\* there is one, else the one found along sys.path, else ImportError
Import(name, path, modules, files) ==
    IF \E m \in modules : m[1] = name
    THEN [ok |-> TRUE, module |-> (CHOOSE m \in modules : m[1] = name)[2],
          modules |-> modules]
    ELSE LET found == FindModule(name, path, files) IN
         IF found = <<>> THEN [ok |-> FALSE, module |-> <<>>, modules |-> modules]
         ELSE [ok |-> TRUE, module |-> found,
               modules |-> modules \cup {<<name, found>>}]

LoadInit ==
    /\ disk \in SUBSET Locations
    /\ sys_path = <<>>
    /\ sys_modules = {}
    /\ loads = 0
    /\ last_load = NoLoad

LoadIdle ==
    /\ disk = {}
    /\ sys_path = <<>>
    /\ sys_modules = {}
    /\ loads = 0
    /\ last_load = NoLoad

\* create_model_from_py(model_blueprint) with model_creation == ""
CreateModelFromPy(blueprint) ==
    /\ loads < MaxLoads
    /\ LET path == <<Dirname(blueprint)>> \o sys_path
           r == Import(ModelModuleName(blueprint), path, sys_modules, disk)
       IN /\ sys_path' = path
          /\ sys_modules' = r.modules
          /\ last_load' = [blueprint |-> blueprint, ok |-> r.ok,
                           module |-> r.module, existed |-> blueprint \in disk]
    /\ loads' = loads + 1
    /\ UNCHANGED disk

(***************************************************************************)
(* Claims about create_model_from_py                                       *)
(***************************************************************************)
\* C8: after any earlier loads, a load of a location that does not exist
\* fails, and a load that succeeds returns the definition unit found at the
\* location it was given.
C8_LoadReturnsUnitAtLocation ==
    loads > 0 =>
        /\ ~last_load.existed => ~last_load.ok
        /\ last_load.ok => last_load.module = last_load.blueprint

vars == <<mergeVars, splitVars, recordVars, dirVars, loadVars>>

MergeNext == AssignParamsDict /\ UNCHANGED <<splitVars, recordVars, dirVars, loadVars>>

SplitNext == SplitParams /\ UNCHANGED <<mergeVars, recordVars, dirVars, loadVars>>

WriteNext == WriteNnetConfig /\ UNCHANGED <<mergeVars, splitVars, dirVars, loadVars>>

ReadNext == ReadNnetConfig /\ UNCHANGED <<mergeVars, splitVars, dirVars, loadVars>>

EditNext ==
    /\ \E f \in Originals : EditBlueprint(f)
    /\ UNCHANGED <<mergeVars, splitVars, recordVars, loadVars>>

DirNext ==
    /\ \E m \in ModelDirs, b \in Blueprints, st \in Stages : CreateModelDir(m, b, st)
    /\ UNCHANGED <<mergeVars, splitVars, recordVars, loadVars>>

LoadNext ==
    /\ \E b \in Locations : CreateModelFromPy(b)
    /\ UNCHANGED <<mergeVars, splitVars, recordVars, dirVars>>

InitMerge == MergeInit /\ SplitIdle /\ RecordIdle /\ DirIdle /\ LoadIdle

InitSplit == SplitInit /\ MergeIdle /\ RecordIdle /\ DirIdle /\ LoadIdle

InitRecord == RecordInit /\ MergeIdle /\ SplitIdle /\ DirIdle /\ LoadIdle

InitDir == DirInit /\ MergeIdle /\ SplitIdle /\ RecordIdle /\ LoadIdle

InitLoad == LoadInit /\ MergeIdle /\ SplitIdle /\ RecordIdle /\ DirIdle

SpecMerge == InitMerge /\ [][MergeNext]_vars

SpecSplit == InitSplit /\ [][SplitNext]_vars

SpecRecord == InitRecord /\ [][WriteNext \/ ReadNext]_vars

SpecDir == InitDir /\ [][EditNext \/ DirNext]_vars

SpecLoad == InitLoad /\ [][LoadNext]_vars

====
